---- MODULE Spec2Model ----
(***************************************************************************)
(* Model of engineio/async_drivers/gevent_uwsgi.py (uWSGIWebSocket).       *)
(*                                                                         *)
(* The uWSGI adapter runs in one of two modes, fixed by __call__: with a   *)
(* request context (direct mode) or, on older uWSGI, with an Event, a      *)
(* Queue and a select greenlet (compatibility mode).  Greenlets are        *)
(* cooperative: a handler runs without interruption between the points     *)
(* where it can switch (Event.wait, Greenlet.kill with block=True,         *)
(* sel.select and the host's websocket calls).                             *)
(*                                                                         *)
(* The host (the uwsgi module) is the environment.  What the model assumes *)
(* of it: a receive on a connection that uwsgi.disconnect() has torn down  *)
(* or that the peer has closed raises IOError; a non-blocking receive with *)
(* nothing to read returns the empty payload; a transmit call records the  *)
(* message and returns.                                                    *)
(***************************************************************************)
EXTENDS Integers, Sequences, FiniteSets, TLC

\* ------------------------------------------------------------------------
\* Bounds of the model
\* ------------------------------------------------------------------------
MaxSends == 3
MaxCloses == 2
MaxPayloadLen == 3
MaxTextLen == 2

\* ------------------------------------------------------------------------
\* Python values: bytes and str objects, None, and a raised exception
\* ------------------------------------------------------------------------
Bytes(s) == [type |-> "bytes", val |-> s]
Str(s) == [type |-> "str", val |-> s]
None == [type |-> "None", val |-> <<>>]
Raise(e) == [type |-> e, val |-> <<>>]

\* bytes and code points the inputs are drawn from
ByteAlphabet == {1, 47, 48, 97, 130, 169, 172, 195, 226, 255}
TextAlphabet == {10, 47, 48, 97, 233, 8364, 128512}

RECURSIVE SeqsUpTo(_, _)
SeqsUpTo(S, n) ==
    IF n = 0 THEN {<<>>}
    ELSE LET shorter == SeqsUpTo(S, n - 1)
         IN  shorter \cup {Append(s, x) : s \in shorter, x \in S}

\* ------------------------------------------------------------------------
\* bytes.decode('utf-8') and str.encode('utf-8') (strict error handling)
\* ------------------------------------------------------------------------
IsCont(b) == b >= 128 /\ b <= 191

\* number of bytes the lead byte announces, 0 for an invalid lead byte
LeadLen(b) ==
    IF b < 128 THEN 1
    ELSE IF b >= 194 /\ b <= 223 THEN 2
    ELSE IF b >= 224 /\ b <= 239 THEN 3
    ELSE IF b >= 240 /\ b <= 244 THEN 4
    ELSE 0

\* the code point of the well-formed sequence starting at b[i], or -1
CodePointAt(b, i) ==
    LET n == LeadLen(b[i]) IN
    IF n = 0 \/ i + n - 1 > Len(b) THEN -1
    ELSE IF n = 1 THEN b[i]
    ELSE IF \E k \in 1..(n - 1) : ~IsCont(b[i + k]) THEN -1
    ELSE IF n = 2 THEN (b[i] - 192) * 64 + (b[i + 1] - 128)
    ELSE IF n = 3 THEN
        LET cp == (b[i] - 224) * 4096 + (b[i + 1] - 128) * 64 + (b[i + 2] - 128)
        IN  IF cp < 2048 \/ (cp >= 55296 /\ cp <= 57343) THEN -1 ELSE cp
    ELSE
        LET cp == (b[i] - 240) * 262144 + (b[i + 1] - 128) * 4096
                  + (b[i + 2] - 128) * 64 + (b[i + 3] - 128)
        IN  IF cp < 65536 \/ cp > 1114111 THEN -1 ELSE cp

RECURSIVE DecodeFrom(_, _, _)
DecodeFrom(b, i, acc) ==
    IF i > Len(b) THEN Str(acc)
    ELSE LET cp == CodePointAt(b, i) IN
         IF cp = -1 THEN Raise("UnicodeDecodeError")
         ELSE DecodeFrom(b, i + LeadLen(b[i]), Append(acc, cp))

\* decoding one character per byte
bytes_decode_latin1(b) == Str(b)

bytes_decode(b) == DecodeFrom(b, 1, <<>>)

EncodeCodePoint(cp) ==
    IF cp < 128 THEN <<cp>>
    ELSE IF cp < 2048 THEN <<192 + (cp \div 64), 128 + (cp % 64)>>
    ELSE IF cp < 65536 THEN
        <<224 + (cp \div 4096), 128 + ((cp \div 64) % 64), 128 + (cp % 64)>>
    ELSE <<240 + (cp \div 262144), 128 + ((cp \div 4096) % 64),
           128 + ((cp \div 64) % 64), 128 + (cp % 64)>>

RECURSIVE str_encode(_)
str_encode(s) ==
    IF s = <<>> THEN <<>>
    ELSE EncodeCodePoint(Head(s)) \o str_encode(Tail(s))

\* ------------------------------------------------------------------------
\* uWSGIWebSocket._decode_received
\* ------------------------------------------------------------------------
\* the same with the threshold test on the wrong side of 48
decode_received_off_by_one(msg) ==
    IF msg.type # "bytes" THEN msg
    ELSE IF Len(msg.val) = 0 THEN Raise("TypeError")
    ELSE IF msg.val[1] > 48 THEN bytes_decode(msg.val)
    ELSE msg

decode_received(msg) ==
    IF msg.type # "bytes" THEN msg
    ELSE IF Len(msg.val) = 0 THEN Raise("TypeError")   \* ord(b'')
    ELSE IF msg.val[1] >= 48 THEN bytes_decode(msg.val)
    ELSE msg

\* ------------------------------------------------------------------------
\* The adapter and its tasks
\* ------------------------------------------------------------------------
VARIABLES
    req_ctx,          \* self._req_ctx: "unset" before __call__, "ctx" or "None"
    event,            \* self._event's flag
    send_queue,       \* self._send_queue
    select_greenlet,  \* self._select_greenlet: "absent", "spawned",
                      \* "selecting", "killing" (GreenletExit pending), "stopped"
    registered,       \* sel has the descriptor registered
    spawned,          \* number of gevent.spawn calls made by the adapter
    peer,             \* "open" or "closed": the peer's end of the connection
    disconnected,     \* uwsgi.disconnect() has been called
    sent,             \* the host's transmit calls, in the order they were made
    sendLog,          \* the arguments of the send() calls, in call order
    wpc,              \* where the wait() call of the main task stands
    msgs,             \* wait(): the local list msgs still to transmit
    event_set,        \* wait(): the local event_set
    elapsed,          \* time units spent in the current self._event.wait
    waitRet,          \* what the last wait() call returned or raised
    cpc,              \* per task: where its close() call stands
    closes,           \* number of close() calls that have returned
    wakeMark,         \* number of send() calls made before the last wake
    recvErr,          \* the current wait() call's receive raised IOError
    waitAfterClose,   \* the current wait() call began after a close() returned
    closedInWait,     \* close() was called while this wait() was suspended
    sock,             \* self._sock: "None" or "fd"
    environ_set,      \* self.environ has been assigned
    app_called,       \* __call__ has reached self.app(self)
    call_raised,      \* __call__ was left by an exception of the handshake
    request,          \* the WSGI environ of the request
    gws,              \* the attributes of the gevent adapter (WebSocketWSGI)
    kill_called,      \* self._select_greenlet.kill() has been called
    pump_failed,      \* sel.select() raised something else than GreenletExit
    received,         \* wait(): what the host's last receive delivered
    recv_count,       \* wait(): receives made since the last self._event.wait
    input,            \* classification: the payload or the text message
    encoded,          \* classification: the text message encoded to bytes
    result,           \* classification: what _decode_received returned
    phase             \* classification: "input", "encoded", "classified"

adapterVars == <<req_ctx, event, send_queue, select_greenlet, registered,
                 spawned, peer, disconnected, sent, sendLog, wpc, msgs,
                 event_set, elapsed, waitRet, cpc, closes, wakeMark, recvErr,
                 waitAfterClose, closedInWait>>
callVars == <<sock, environ_set, app_called, call_raised>>
geventVars == <<request, gws>>
traceVars == <<kill_called, pump_failed, received, recv_count>>
classifyVars == <<input, encoded, result, phase>>
vars == <<adapterVars, callVars, geventVars, traceVars, classifyVars>>

Tasks == {"main", "other"}

\* a longer timeout
TimeoutLong == 3 + 1

\* timeout of self._event.wait
Timeout == 3

\* the messages the application sends
Msgs == {Str(<<104, 105>>), Bytes(<<1, 2>>)}

\* what the host's receive calls deliver on a live connection; the empty
\* payload is what websocket_recv_nb returns when there is nothing to read
InPayloads == {<<>>, <<48, 97>>, <<1, 97>>, <<255>>}

NoCall == [type |-> "no call", val |-> <<>>]
Pending == [type |-> "pending", val |-> <<>>]

AdapterInit ==
    /\ req_ctx = "unset"
    /\ event = FALSE
    /\ send_queue = <<>>
    /\ select_greenlet = "absent"
    /\ registered = FALSE
    /\ spawned = 0
    /\ peer = "open"
    /\ disconnected = FALSE
    /\ sent = <<>>
    /\ sendLog = <<>>
    /\ wpc = "idle"
    /\ msgs = <<>>
    /\ event_set = FALSE
    /\ elapsed = 0
    /\ waitRet = NoCall
    /\ cpc = [t \in Tasks |-> "idle"]
    /\ closes = 0
    /\ wakeMark = 0
    /\ recvErr = FALSE
    /\ waitAfterClose = FALSE
    /\ closedInWait = FALSE
    /\ sock = "None"
    /\ environ_set = FALSE
    /\ app_called = FALSE
    /\ call_raised = FALSE
    /\ kill_called = FALSE
    /\ pump_failed = FALSE
    /\ received = None
    /\ recv_count = 0

\* the WSGI environ of a request: whether it is a WebSocket upgrade and, if
\* so, what the server's websocket object says of the connection
NoWebsocket ==
    [websocket |-> FALSE, version |-> "", path |-> "", origin |-> "",
     protocol |-> ""]

Requests ==
    {NoWebsocket} \cup
    [websocket : {TRUE}, version : {"13", "8", "7"},
     path : {"/engine.io/", "/socket.io/"},
     origin : {"", "http://localhost"}, protocol : {"", "chat"}]

UpgradedRequest ==
    [websocket |-> TRUE, version |-> "13", path |-> "/engine.io/",
     origin |-> "", protocol |-> ""]

\* WebSocketWSGI.__init__: only self.app is set
GeventNew ==
    [sock_set |-> FALSE, environ_set |-> FALSE, version |-> "unset",
     path |-> "unset", origin |-> "unset", protocol |-> "unset",
     app_called |-> FALSE, raised |-> FALSE]

GeventIdle ==
    /\ request = UpgradedRequest
    /\ gws = GeventNew

ClassifyIdle ==
    /\ input = None
    /\ encoded = None
    /\ result = None
    /\ phase = "off"

Init == AdapterInit /\ GeventIdle /\ ClassifyIdle

\* a task can start a call when it is not inside another one
Free(t) == cpc[t] = "idle" /\ (t = "main" => wpc = "idle")

\* __call__ that sets up the event and the queue but spawns no greenlet
CallNoSpawn(has_request_context) ==
    /\ req_ctx = "unset"
    /\ ~call_raised
    /\ request.websocket
    /\ sock' = "fd"
    /\ environ_set' = TRUE
    /\ app_called' = TRUE
    /\ IF has_request_context
       THEN /\ req_ctx' = "ctx"
            /\ UNCHANGED <<event, send_queue>>
       ELSE /\ req_ctx' = "None"
            /\ event' = FALSE
            /\ send_queue' = <<>>
    /\ UNCHANGED <<select_greenlet, spawned>>
    /\ UNCHANGED <<registered, peer, disconnected, sent, sendLog, wpc, msgs,
                   event_set, elapsed, waitRet, cpc, closes, wakeMark,
                   recvErr, waitAfterClose, closedInWait, classifyVars,
                   call_raised, geventVars, traceVars>>

\* uWSGIWebSocket.__call__: the handshake is done, the mode is chosen
Call(has_request_context) ==
    /\ req_ctx = "unset"
    /\ ~call_raised
    /\ request.websocket
    /\ sock' = "fd"
    /\ environ_set' = TRUE
    /\ app_called' = TRUE
    /\ IF has_request_context
       THEN /\ req_ctx' = "ctx"
            /\ UNCHANGED <<event, send_queue, select_greenlet, spawned>>
       ELSE /\ req_ctx' = "None"
            /\ event' = FALSE
            /\ send_queue' = <<>>
            /\ select_greenlet' = "spawned"
            /\ spawned' = spawned + 1
    /\ UNCHANGED <<registered, peer, disconnected, sent, sendLog, wpc, msgs,
                   event_set, elapsed, waitRet, cpc, closes, wakeMark,
                   recvErr, waitAfterClose, closedInWait, classifyVars,
                   call_raised, geventVars, traceVars>>

\* uWSGIWebSocket.__call__ for a request that is no WebSocket upgrade:
\* uwsgi.websocket_handshake() raises, after self._sock and self.environ
\* have been assigned
CallHandshakeFails ==
    /\ req_ctx = "unset"
    /\ ~call_raised
    /\ ~request.websocket
    /\ sock' = "fd"
    /\ environ_set' = TRUE
    /\ call_raised' = TRUE
    /\ UNCHANGED <<app_called, adapterVars, geventVars, traceVars,
                   classifyVars>>

\* __call__ that stores the environ before it looks for 'wsgi.websocket'
GeventCallStoresFirst ==
    /\ ~gws.raised
    /\ ~gws.app_called
    /\ IF ~request.websocket
       THEN gws' = [gws EXCEPT !.raised = TRUE, !.environ_set = TRUE]
       ELSE gws' = [sock_set |-> TRUE, environ_set |-> TRUE,
                    version |-> request.version, path |-> request.path,
                    origin |-> request.origin,
                    protocol |-> request.protocol,
                    app_called |-> TRUE, raised |-> FALSE]
    /\ UNCHANGED <<request, adapterVars, callVars, traceVars, classifyVars>>

\* WebSocketWSGI.__call__ (gevent): raises RuntimeError before anything is
\* set if the environ has no 'wsgi.websocket', else copies the websocket's
\* attributes and calls the application
GeventCall ==
    /\ ~gws.raised
    /\ ~gws.app_called
    /\ IF ~request.websocket
       THEN gws' = [gws EXCEPT !.raised = TRUE]
       ELSE gws' = [sock_set |-> TRUE, environ_set |-> TRUE,
                    version |-> request.version, path |-> request.path,
                    origin |-> request.origin,
                    protocol |-> request.protocol,
                    app_called |-> TRUE, raised |-> FALSE]
    /\ UNCHANGED <<request, adapterVars, callVars, traceVars, classifyVars>>

\* uWSGIWebSocket._send: the host call made for msg
HostCall(msg) ==
    [method |-> IF msg.type = "bytes" THEN "websocket_send_binary"
                ELSE "websocket_send",
     msg |-> msg,
     request_context |-> (req_ctx = "ctx")]

\* Queue.put at the head instead of the tail
QueuePutFront(q, msg) == <<msg>> \o q

\* gevent.queue.Queue.put on the unbounded queue
QueuePut(q, msg) == Append(q, msg)

\* send() that queues in direct mode too
SendAlwaysQueued(t, msg) ==
    /\ req_ctx # "unset"
    /\ Free(t)
    /\ Len(sendLog) < MaxSends
    /\ sendLog' = Append(sendLog, msg)
    /\ send_queue' = QueuePut(send_queue, msg)
    /\ event' = TRUE
    /\ UNCHANGED sent
    /\ UNCHANGED <<req_ctx, select_greenlet, registered, spawned, peer,
                   disconnected, wpc, msgs, event_set, elapsed, waitRet, cpc,
                   closes, wakeMark, recvErr, waitAfterClose, closedInWait,
                   classifyVars, callVars, geventVars, traceVars>>

\* send() that also transmits the message itself in compatibility mode
SendAndTransmit(t, msg) ==
    /\ req_ctx # "unset"
    /\ Free(t)
    /\ Len(sendLog) < MaxSends
    /\ sendLog' = Append(sendLog, msg)
    /\ sent' = Append(sent, HostCall(msg))
    /\ IF req_ctx = "ctx"
       THEN UNCHANGED <<send_queue, event>>
       ELSE /\ send_queue' = QueuePut(send_queue, msg)
            /\ event' = TRUE
    /\ UNCHANGED <<req_ctx, select_greenlet, registered, spawned, peer,
                   disconnected, wpc, msgs, event_set, elapsed, waitRet, cpc,
                   closes, wakeMark, recvErr, waitAfterClose, closedInWait,
                   classifyVars, callVars, geventVars, traceVars>>

\* send() that forgets self._event.set()
SendNoSet(t, msg) ==
    /\ req_ctx # "unset"
    /\ Free(t)
    /\ Len(sendLog) < MaxSends
    /\ sendLog' = Append(sendLog, msg)
    /\ IF req_ctx = "ctx"
       THEN /\ sent' = Append(sent, HostCall(msg))
            /\ UNCHANGED <<send_queue, event>>
       ELSE /\ send_queue' = QueuePut(send_queue, msg)
            /\ UNCHANGED <<sent, event>>
    /\ UNCHANGED <<req_ctx, select_greenlet, registered, spawned, peer,
                   disconnected, wpc, msgs, event_set, elapsed, waitRet, cpc,
                   closes, wakeMark, recvErr, waitAfterClose, closedInWait,
                   classifyVars, callVars, geventVars, traceVars>>

\* uWSGIWebSocket.send
Send(t, msg) ==
    /\ req_ctx # "unset"
    /\ Free(t)
    /\ Len(sendLog) < MaxSends
    /\ sendLog' = Append(sendLog, msg)
    /\ IF req_ctx = "ctx"
       THEN /\ sent' = Append(sent, HostCall(msg))
            /\ UNCHANGED <<send_queue, event>>
       ELSE /\ send_queue' = QueuePut(send_queue, msg)
            /\ event' = TRUE
            /\ UNCHANGED sent
    /\ UNCHANGED <<req_ctx, select_greenlet, registered, spawned, peer,
                   disconnected, wpc, msgs, event_set, elapsed, waitRet, cpc,
                   closes, wakeMark, recvErr, waitAfterClose, closedInWait,
                   classifyVars, callVars, geventVars, traceVars>>

\* Greenlet.kill(): a greenlet that never ran is dead at once, a running one
\* gets GreenletExit thrown into it, a dead one is left as it is
Killed(g) ==
    IF g = "spawned" THEN "stopped"
    ELSE IF g = "selecting" THEN "killing"
    ELSE g

\* close() that leaves the select greenlet alone
CloseNoKill(t) ==
    /\ req_ctx # "unset"
    /\ Free(t)
    /\ closes + Cardinality({u \in Tasks : cpc[u] = "kill_wait"}) < MaxCloses
    /\ disconnected' = TRUE
    /\ closedInWait' = (closedInWait \/ wpc = "event_wait")
    /\ closes' = closes + 1
    /\ IF req_ctx = "ctx" THEN UNCHANGED event ELSE event' = TRUE
    /\ UNCHANGED <<select_greenlet, cpc>>
    /\ UNCHANGED <<req_ctx, send_queue, registered, spawned, peer, sent,
                   sendLog, wpc, msgs, event_set, elapsed, waitRet, wakeMark,
                   recvErr, waitAfterClose,
                   classifyVars, callVars, geventVars, traceVars>>

\* uWSGIWebSocket.close, up to the point where kill() blocks or close returns
Close(t) ==
    /\ req_ctx # "unset"
    /\ Free(t)
    /\ closes + Cardinality({u \in Tasks : cpc[u] = "kill_wait"}) < MaxCloses
    /\ disconnected' = TRUE
    /\ kill_called' = (kill_called \/ req_ctx = "None")
    /\ closedInWait' = (closedInWait \/ wpc = "event_wait")
    /\ IF req_ctx = "ctx"
       THEN /\ closes' = closes + 1
            /\ UNCHANGED <<select_greenlet, event, cpc>>
       ELSE /\ select_greenlet' = Killed(select_greenlet)
            /\ IF select_greenlet' = "stopped"
               THEN /\ event' = TRUE
                    /\ closes' = closes + 1
                    /\ UNCHANGED cpc
               ELSE /\ cpc' = [cpc EXCEPT ![t] = "kill_wait"]
                    /\ UNCHANGED <<event, closes>>
    /\ UNCHANGED <<req_ctx, send_queue, registered, spawned, peer, sent,
                   sendLog, wpc, msgs, event_set, elapsed, waitRet, wakeMark,
                   recvErr, waitAfterClose,
                   classifyVars, callVars, geventVars, pump_failed, received,
                   recv_count>>

\* uWSGIWebSocket.close, from the return of kill() to the end
CloseResume(t) ==
    /\ cpc[t] = "kill_wait"
    /\ select_greenlet = "stopped"
    /\ event' = TRUE
    /\ cpc' = [cpc EXCEPT ![t] = "idle"]
    /\ closes' = closes + 1
    /\ UNCHANGED <<req_ctx, send_queue, select_greenlet, registered, spawned,
                   peer, disconnected, sent, sendLog, wpc, msgs, event_set,
                   elapsed, waitRet, wakeMark, recvErr, waitAfterClose,
                   closedInWait, classifyVars, callVars, geventVars, traceVars>>

\* select_greenlet_runner: first run, up to the first sel.select()
PumpStart ==
    /\ select_greenlet = "spawned"
    /\ select_greenlet' = "selecting"
    /\ registered' = TRUE
    /\ UNCHANGED <<req_ctx, event, send_queue, spawned, peer, disconnected,
                   sent, sendLog, wpc, msgs, event_set, elapsed, waitRet, cpc,
                   closes, wakeMark, recvErr, waitAfterClose, closedInWait,
                   classifyVars, callVars, geventVars, traceVars>>

\* the runner without its while loop: it ends after the first notification
PumpNotifyOnce ==
    /\ select_greenlet \in {"selecting", "killing"}
    /\ event' = TRUE
    /\ select_greenlet' = "stopped"
    /\ UNCHANGED <<req_ctx, send_queue, registered, spawned,
                   peer, disconnected, sent, sendLog, wpc, msgs, event_set,
                   elapsed, waitRet, cpc, closes, wakeMark, recvErr,
                   waitAfterClose, closedInWait, classifyVars,
                   callVars, geventVars, traceVars>>

\* the runner that also transmits what is queued when it is notified
PumpNotifySends ==
    /\ select_greenlet \in {"selecting", "killing"}
    /\ event' = TRUE
    /\ sent' = sent \o [i \in 1..Len(send_queue) |-> HostCall(send_queue[i])]
    /\ send_queue' = <<>>
    /\ UNCHANGED <<req_ctx, select_greenlet, registered, spawned,
                   peer, disconnected, sendLog, wpc, msgs, event_set,
                   elapsed, waitRet, cpc, closes, wakeMark, recvErr,
                   waitAfterClose, closedInWait, classifyVars,
                   callVars, geventVars, traceVars>>

\* select_greenlet_runner: sel.select() returns, event.set(), select again
PumpNotify ==
    /\ select_greenlet \in {"selecting", "killing"}
    /\ event' = TRUE
    /\ UNCHANGED <<req_ctx, send_queue, select_greenlet, registered, spawned,
                   peer, disconnected, sent, sendLog, wpc, msgs, event_set,
                   elapsed, waitRet, cpc, closes, wakeMark, recvErr,
                   waitAfterClose, closedInWait,
                   classifyVars, callVars, geventVars, traceVars>>

\* select_greenlet_runner: GreenletExit is raised in sel.select()
PumpExit ==
    /\ select_greenlet = "killing"
    /\ select_greenlet' = "stopped"
    /\ registered' = FALSE
    /\ UNCHANGED <<req_ctx, event, send_queue, spawned, peer, disconnected,
                   sent, sendLog, wpc, msgs, event_set, elapsed, waitRet, cpc,
                   closes, wakeMark, recvErr, waitAfterClose, closedInWait,
                   classifyVars, callVars, geventVars, traceVars>>

\* select_greenlet_runner: sel.select() raises something else, which the
\* except clause does not catch
PumpFail ==
    /\ select_greenlet \in {"selecting", "killing"}
    /\ select_greenlet' = "stopped"
    /\ pump_failed' = TRUE
    /\ UNCHANGED <<req_ctx, event, send_queue, registered, spawned, peer,
                   disconnected, sent, sendLog, wpc, msgs, event_set, elapsed,
                   waitRet, cpc, closes, wakeMark, recvErr, waitAfterClose,
                   closedInWait,
                   classifyVars, callVars, geventVars, kill_called, received,
                   recv_count>>

\* the peer closes its end
PeerClose ==
    /\ req_ctx # "unset"
    /\ peer = "open"
    /\ peer' = "closed"
    /\ UNCHANGED <<req_ctx, event, send_queue, select_greenlet, registered,
                   spawned, disconnected, sent, sendLog, wpc, msgs, event_set,
                   elapsed, waitRet, cpc, closes, wakeMark, recvErr,
                   waitAfterClose, closedInWait,
                   classifyVars, callVars, geventVars, traceVars>>

\* what uwsgi.websocket_recv / websocket_recv_nb can deliver now
HostRecv ==
    IF disconnected \/ peer = "closed"
    THEN {Raise("IOError")}
    ELSE {Bytes(p) : p \in InPayloads}

\* uWSGIWebSocket.wait: entry, up to the first blocking call
WaitCall ==
    /\ req_ctx # "unset"
    /\ Free("main")
    /\ waitRet' = Pending
    /\ recvErr' = FALSE
    /\ waitAfterClose' = (closes >= 1)
    /\ closedInWait' = FALSE
    /\ elapsed' = 0
    /\ received' = None
    /\ recv_count' = 0
    /\ wpc' = IF req_ctx = "ctx" THEN "recv" ELSE "event_wait"
    /\ UNCHANGED <<req_ctx, event, send_queue, select_greenlet, registered,
                   spawned, peer, disconnected, sent, sendLog, msgs, event_set,
                   cpc, closes, wakeMark,
                   classifyVars, callVars, geventVars, kill_called,
                   pump_failed>>

\* uWSGIWebSocket.wait, direct mode: the blocking receive and the return
WaitRecv ==
    /\ wpc = "recv"
    /\ recv_count' = recv_count + 1
    /\ \E r \in HostRecv :
        /\ received' = r
        /\ IF r.type = "IOError"
           THEN /\ recvErr' = TRUE
                /\ waitRet' = None
           ELSE /\ waitRet' = decode_received(r)
                /\ UNCHANGED recvErr
    /\ wpc' = "idle"
    /\ UNCHANGED <<req_ctx, event, send_queue, select_greenlet, registered,
                   spawned, peer, disconnected, sent, sendLog, msgs, event_set,
                   elapsed, cpc, closes, wakeMark, waitAfterClose,
                   closedInWait,
                   classifyVars, callVars, geventVars, kill_called,
                   pump_failed>>

\* a time unit passes while wait() is suspended in self._event.wait(timeout=3)
Tick ==
    /\ wpc = "event_wait"
    /\ ~event
    /\ elapsed < Timeout
    /\ elapsed' = elapsed + 1
    /\ UNCHANGED <<req_ctx, event, send_queue, select_greenlet, registered,
                   spawned, peer, disconnected, sent, sendLog, wpc, msgs,
                   event_set, waitRet, cpc, closes, wakeMark, recvErr,
                   waitAfterClose, closedInWait,
                   classifyVars, callVars, geventVars, traceVars>>

\* uWSGIWebSocket.wait, compatibility mode: self._event.wait returns; if the
\* event was set it is cleared and the queue is drained into msgs
WaitWake ==
    /\ wpc = "event_wait"
    /\ event \/ elapsed = Timeout
    /\ event_set' = event
    /\ wakeMark' = Len(sendLog)
    /\ recv_count' = 0
    /\ IF event
       THEN /\ event' = FALSE
            /\ msgs' = send_queue
            /\ send_queue' = <<>>
       ELSE UNCHANGED <<event, msgs, send_queue>>
    /\ wpc' = IF msgs' # <<>> THEN "flush" ELSE "recv_nb"
    /\ UNCHANGED <<req_ctx, select_greenlet, registered, spawned, peer,
                   disconnected, sent, sendLog, elapsed, waitRet, cpc, closes,
                   recvErr, waitAfterClose, closedInWait,
                   classifyVars, callVars, geventVars, kill_called,
                   pump_failed, received>>

\* the flush with self._event.clear() moved behind the transmit loop
WaitFlushClearAfter ==
    /\ wpc = "flush"
    /\ sent' = Append(sent, HostCall(Head(msgs)))
    /\ msgs' = Tail(msgs)
    /\ wpc' = IF msgs' # <<>> THEN "flush" ELSE "recv_nb"
    /\ event' = IF msgs' # <<>> THEN event ELSE FALSE
    /\ UNCHANGED <<req_ctx, send_queue, select_greenlet, registered,
                   spawned, peer, disconnected, sendLog, event_set, elapsed,
                   waitRet, cpc, closes, wakeMark, recvErr, waitAfterClose,
                   closedInWait, classifyVars, callVars, geventVars,
                   traceVars>>

\* the flush that transmits every message twice
WaitFlushTwice ==
    /\ wpc = "flush"
    /\ sent' = sent \o <<HostCall(Head(msgs)), HostCall(Head(msgs))>>
    /\ msgs' = Tail(msgs)
    /\ wpc' = IF msgs' # <<>> THEN "flush" ELSE "recv_nb"
    /\ UNCHANGED <<req_ctx, event, send_queue, select_greenlet, registered,
                   spawned, peer, disconnected, sendLog, event_set, elapsed,
                   waitRet, cpc, closes, wakeMark, recvErr, waitAfterClose,
                   closedInWait, classifyVars, callVars, geventVars,
                   traceVars>>

\* uWSGIWebSocket.wait, compatibility mode: self._send(msg) for the next msg
WaitFlush ==
    /\ wpc = "flush"
    /\ sent' = Append(sent, HostCall(Head(msgs)))
    /\ msgs' = Tail(msgs)
    /\ wpc' = IF msgs' # <<>> THEN "flush" ELSE "recv_nb"
    /\ UNCHANGED <<req_ctx, event, send_queue, select_greenlet, registered,
                   spawned, peer, disconnected, sendLog, event_set, elapsed,
                   waitRet, cpc, closes, wakeMark, recvErr, waitAfterClose,
                   closedInWait, classifyVars, callVars, geventVars, traceVars>>

\* the non-blocking receive that takes IOError for "nothing to read"
WaitRecvNbRetry ==
    /\ wpc = "recv_nb"
    /\ recv_count' = recv_count + 1
    /\ \E r \in HostRecv :
        /\ received' = r
        /\ IF r.type # "IOError" /\ r.val # <<>>
           THEN /\ waitRet' = decode_received(r)
                /\ wpc' = "idle"
                /\ UNCHANGED <<recvErr, elapsed>>
           ELSE /\ wpc' = "event_wait"
                /\ elapsed' = 0
                /\ recvErr' = (recvErr \/ r.type = "IOError")
                /\ UNCHANGED waitRet
    /\ UNCHANGED <<req_ctx, event, send_queue, select_greenlet, registered,
                   spawned, peer, disconnected, sent, sendLog, msgs, event_set,
                   cpc, closes, wakeMark, waitAfterClose, closedInWait,
                   classifyVars, callVars, geventVars, kill_called,
                   pump_failed>>

\* the non-blocking receive without the except clause
WaitRecvNbPropagate ==
    /\ wpc = "recv_nb"
    /\ recv_count' = recv_count + 1
    /\ \E r \in HostRecv :
        /\ received' = r
        /\ IF r.type = "IOError"
           THEN /\ recvErr' = TRUE
                /\ wpc' = "idle"
                /\ waitRet' = r
                /\ UNCHANGED elapsed
           ELSE IF r.val # <<>>
           THEN /\ waitRet' = decode_received(r)
                /\ wpc' = "idle"
                /\ UNCHANGED <<recvErr, elapsed>>
           ELSE /\ wpc' = "event_wait"
                /\ elapsed' = 0
                /\ UNCHANGED <<recvErr, waitRet>>
    /\ UNCHANGED <<req_ctx, event, send_queue, select_greenlet, registered,
                   spawned, peer, disconnected, sent, sendLog, msgs, event_set,
                   cpc, closes, wakeMark, waitAfterClose, closedInWait,
                   classifyVars, callVars, geventVars, kill_called,
                   pump_failed>>

\* the non-blocking receive that returns whatever it got, empty or not
WaitRecvNbNoEmptyTest ==
    /\ wpc = "recv_nb"
    /\ recv_count' = recv_count + 1
    /\ \E r \in HostRecv :
        /\ received' = r
        /\ IF r.type = "IOError"
           THEN /\ recvErr' = TRUE
                /\ kill_called' = TRUE
                /\ select_greenlet' = Killed(select_greenlet)
                /\ IF select_greenlet' = "stopped"
                   THEN wpc' = "idle" /\ waitRet' = None
                   ELSE wpc' = "kill_wait" /\ UNCHANGED waitRet
           ELSE /\ waitRet' = r
                /\ wpc' = "idle"
                /\ UNCHANGED <<recvErr, select_greenlet, kill_called>>
    /\ UNCHANGED <<req_ctx, event, send_queue, registered, spawned, peer,
                   disconnected, sent, sendLog, msgs, event_set, cpc, closes,
                   wakeMark, waitAfterClose, closedInWait, elapsed,
                   classifyVars, callVars, geventVars, pump_failed>>

\* uWSGIWebSocket.wait, compatibility mode: the non-blocking receive
WaitRecvNb ==
    /\ wpc = "recv_nb"
    /\ recv_count' = recv_count + 1
    /\ \E r \in HostRecv :
        /\ received' = r
        /\ IF r.type = "IOError"
           THEN /\ recvErr' = TRUE
                /\ kill_called' = TRUE
                /\ select_greenlet' = Killed(select_greenlet)
                /\ IF select_greenlet' = "stopped"
                   THEN wpc' = "idle" /\ waitRet' = None
                   ELSE wpc' = "kill_wait" /\ UNCHANGED waitRet
                /\ UNCHANGED elapsed
           ELSE IF r.val # <<>>
           THEN /\ waitRet' = decode_received(r)
                /\ wpc' = "idle"
                /\ UNCHANGED <<recvErr, select_greenlet, elapsed,
                               kill_called>>
           ELSE /\ wpc' = "event_wait"
                /\ elapsed' = 0
                /\ UNCHANGED <<recvErr, select_greenlet, waitRet,
                               kill_called>>
    /\ UNCHANGED <<req_ctx, event, send_queue, registered, spawned, peer,
                   disconnected, sent, sendLog, msgs, event_set, cpc, closes,
                   wakeMark, waitAfterClose, closedInWait, classifyVars,
                   callVars, geventVars, pump_failed>>

\* uWSGIWebSocket.wait, compatibility mode: kill() returns, wait returns None
WaitKillResume ==
    /\ wpc = "kill_wait"
    /\ select_greenlet = "stopped"
    /\ wpc' = "idle"
    /\ waitRet' = None
    /\ UNCHANGED <<req_ctx, event, send_queue, select_greenlet, registered,
                   spawned, peer, disconnected, sent, sendLog, msgs, event_set,
                   elapsed, cpc, closes, wakeMark, recvErr, waitAfterClose,
                   closedInWait, classifyVars, callVars, geventVars, traceVars>>

Next ==
    \/ \E c \in BOOLEAN : Call(c)
    \/ \E t \in Tasks, m \in Msgs : Send(t, m)
    \/ \E t \in Tasks : Close(t)
    \/ \E t \in Tasks : CloseResume(t)
    \/ PumpStart
    \/ PumpNotify
    \/ PumpExit
    \/ PumpFail
    \/ PeerClose
    \/ WaitCall
    \/ WaitRecv
    \/ Tick
    \/ WaitWake
    \/ WaitFlush
    \/ WaitRecvNb
    \/ WaitKillResume

Spec == Init /\ [][Next]_vars

\* The gevent hub runs every greenlet that is ready and fires every timer:
\* a step of wait(), of close() or of the select greenlet that stays
\* possible is taken.  The application and the peer owe nothing.
Fairness ==
    /\ WF_vars(Tick)
    /\ WF_vars(WaitWake)
    /\ WF_vars(WaitFlush)
    /\ WF_vars(WaitRecvNb)
    /\ WF_vars(WaitKillResume)
    /\ WF_vars(PumpExit)
    /\ \A t \in Tasks : WF_vars(CloseResume(t))

FairSpec == Spec /\ Fairness

\* ------------------------------------------------------------------------
\* Classification of received payloads, on its own
\* ------------------------------------------------------------------------
ClassifyInit ==
    /\ AdapterInit
    /\ GeventIdle
    /\ input \in {Bytes(p) : p \in SeqsUpTo(ByteAlphabet, MaxPayloadLen)}
                 \cup {Str(t) : t \in SeqsUpTo(TextAlphabet, MaxTextLen)}
    /\ encoded = None
    /\ result = None
    /\ phase = "input"

\* a payload arrives and wait() hands it to _decode_received
Receive ==
    /\ phase = "input"
    /\ input.type = "bytes"
    /\ result' = decode_received(input)
    /\ phase' = "classified"
    /\ UNCHANGED <<input, encoded, adapterVars,
                   callVars, geventVars, traceVars>>

\* a text message is put on the wire in UTF-8 text mode
Encode ==
    /\ phase = "input"
    /\ input.type = "str"
    /\ encoded' = Bytes(str_encode(input.val))
    /\ phase' = "encoded"
    /\ UNCHANGED <<input, result, adapterVars, callVars, geventVars, traceVars>>

\* the encoded text message arrives and wait() hands it to _decode_received
ReceiveEncoded ==
    /\ phase = "encoded"
    /\ result' = decode_received(encoded)
    /\ phase' = "roundtrip"
    /\ UNCHANGED <<input, encoded, adapterVars,
                   callVars, geventVars, traceVars>>

ClassifyNext == Receive \/ Encode \/ ReceiveEncoded

SpecClassify == ClassifyInit /\ [][ClassifyNext]_vars

\* ------------------------------------------------------------------------
\* The two adapters' __call__ on any request, on its own
\* ------------------------------------------------------------------------
AcceptInit ==
    /\ AdapterInit
    /\ ClassifyIdle
    /\ request \in Requests
    /\ gws = GeventNew

AcceptNext ==
    \/ \E c \in BOOLEAN : Call(c)
    \/ CallHandshakeFails
    \/ GeventCall

SpecAccept == AcceptInit /\ [][AcceptNext]_vars

\* ------------------------------------------------------------------------
\* Properties
\* ------------------------------------------------------------------------
\* the messages of the host's transmit calls, in the order of the calls
SentMsgs == [i \in 1..Len(sent) |-> sent[i].msg]

\* C1: in both modes the messages handed to the host's transmit calls are,
\* in order, the messages send() was called with: the transmitted sequence
\* is always a prefix of the sequence of send() calls.
C1_SendOrderPreserved ==
    /\ Len(sent) <= Len(sendLog)
    /\ SentMsgs = SubSeq(sendLog, 1, Len(sent))

\* two different messages went out in compatibility mode while a third one,
\* sent by another task during the flush, waits in the queue
C1_Witness ==
    /\ req_ctx = "None"
    /\ Len(sent) = 2
    /\ sent[1].msg # sent[2].msg
    /\ Len(send_queue) = 1
    /\ wpc = "recv_nb"

\* C2: in compatibility mode, when wait() makes the non-blocking receive of
\* a wake, every message send() was called with before that wake has been
\* transmitted, in send order.
C2_FlushedBeforeReceive ==
    (req_ctx = "None" /\ wpc = "recv_nb") =>
        /\ Len(sent) >= wakeMark
        /\ SubSeq(SentMsgs, 1, wakeMark) = SubSeq(sendLog, 1, wakeMark)

\* send("hi"); send(b"\x01\x02"); wait(): both are out, in that order, when
\* the first wake makes its receive
C2_Witness ==
    /\ req_ctx = "None"
    /\ wpc = "recv_nb"
    /\ wakeMark = 2
    /\ waitRet = Pending
    /\ SentMsgs = <<Str(<<104, 105>>), Bytes(<<1, 2>>)>>

\* C3: once a close() has returned, however many more return, the adapter
\* is in the same terminal state: disconnected, the select greenlet stopped
\* (compatibility mode), and a wait() that starts afterwards returns None; a
\* further close() returns without changing any of that.
C3_CloseIdempotent ==
    /\ [](closes >= 1 =>
            /\ disconnected
            /\ req_ctx = "None" => select_greenlet = "stopped"
            /\ (waitAfterClose /\ wpc = "idle") => waitRet = None)
    /\ [][(closes >= 1 /\ closes' > closes) =>
            UNCHANGED <<disconnected, select_greenlet, registered,
                        send_queue, sent>>]_vars

\* two close() calls have returned and a later wait() has returned None
C3_Witness ==
    /\ req_ctx = "None"
    /\ closes = 2
    /\ waitAfterClose
    /\ wpc = "idle"
    /\ waitRet = None

\* C4: in compatibility mode a wait() that was suspended on the event when
\* close() was called does not go back to waiting on the event, spends no
\* more than the timeout suspended, and returns None.
C4_CloseUnblocksWait ==
    /\ [](closedInWait => elapsed <= 3)
    /\ []((closedInWait /\ wpc = "idle") => waitRet = None)
    /\ [][(closedInWait' /\ wpc # "event_wait") => wpc' # "event_wait"]_vars
    /\ ((closedInWait /\ wpc # "idle") ~> (wpc = "idle" /\ waitRet = None))

\* close() came from the other task while wait() slept, and wait() returned
C4_Witness ==
    /\ req_ctx = "None"
    /\ closedInWait
    /\ closes >= 1
    /\ wpc = "idle"
    /\ waitRet = None

\* C5: in compatibility mode wait() is never suspended on the event for
\* more than 3 units; every wake leaves no message in the queue and leads,
\* after the flush, to a non-blocking receive.
C5_BoundedWait ==
    /\ [](elapsed <= 3)
    /\ [][(wpc = "event_wait" /\ wpc' # "event_wait")
            => (send_queue' = <<>> /\ wpc' \in {"flush", "recv_nb"})]_vars
    /\ [][wpc = "flush" => wpc' \in {"flush", "recv_nb"}]_vars

\* a wake by timeout, with nothing sent and nothing received, at the receive
C5_Witness ==
    /\ req_ctx = "None"
    /\ wpc = "recv_nb"
    /\ ~event_set
    /\ elapsed = 3
    /\ sendLog = <<>>
    /\ peer = "open"

\* C6: when the host's receive raises IOError inside wait(), wait() makes no
\* further receive and returns None, never the exception; in compatibility
\* mode the select greenlet is stopped by the time wait() returns.
C6_ReceiveErrorIsClosure ==
    /\ waitRet.type # "IOError"
    /\ recvErr =>
        /\ wpc \in {"kill_wait", "idle"}
        /\ wpc = "idle" =>
            /\ waitRet = None
            /\ req_ctx = "None" => select_greenlet = "stopped"

\* the peer closed, nobody called close(), and wait() returned None after
\* waiting for the select greenlet to die
C6_Witness ==
    /\ req_ctx = "None"
    /\ recvErr
    /\ peer = "closed"
    /\ ~disconnected
    /\ wpc = "idle"
    /\ waitRet = None
    /\ ~registered
    /\ select_greenlet = "stopped"

C8_DirectModeBypassesPump ==
    /\ [](req_ctx = "ctx" =>
            /\ select_greenlet = "absent"
            /\ spawned = 0
            /\ ~registered
            /\ ~event
            /\ send_queue = <<>>
            /\ msgs = <<>>
            /\ wpc \in {"idle", "recv"}
            /\ \A t \in Tasks : cpc[t] = "idle"
            /\ SentMsgs = sendLog
            /\ \A i \in 1..Len(sent) : sent[i].request_context)
    /\ [][(req_ctx = "ctx" /\ wpc = "recv" /\ wpc' # "recv")
            => (wpc' = "idle" /\ (peer = "closed" => waitRet' = None))]_vars

\* direct mode: a message went out, the peer closed, wait() returned None
C8_Witness ==
    /\ req_ctx = "ctx"
    /\ Len(sent) >= 1
    /\ peer = "closed"
    /\ ~disconnected
    /\ wpc = "idle"
    /\ waitRet = None

\* well-formed UTF-8, byte ranges of the Unicode standard (table 3-7)
InRange(b, i, lo, hi) == i <= Len(b) /\ b[i] >= lo /\ b[i] <= hi

RECURSIVE WellFormedFrom(_, _)
WellFormedFrom(b, i) ==
    IF i > Len(b) THEN TRUE
    ELSE \/ InRange(b, i, 0, 127) /\ WellFormedFrom(b, i + 1)
         \/ /\ InRange(b, i, 194, 223) /\ InRange(b, i + 1, 128, 191)
            /\ WellFormedFrom(b, i + 2)
         \/ /\ \/ InRange(b, i, 224, 224) /\ InRange(b, i + 1, 160, 191)
               \/ InRange(b, i, 225, 236) /\ InRange(b, i + 1, 128, 191)
               \/ InRange(b, i, 237, 237) /\ InRange(b, i + 1, 128, 159)
               \/ InRange(b, i, 238, 239) /\ InRange(b, i + 1, 128, 191)
            /\ InRange(b, i + 2, 128, 191)
            /\ WellFormedFrom(b, i + 3)
         \/ /\ \/ InRange(b, i, 240, 240) /\ InRange(b, i + 1, 144, 191)
               \/ InRange(b, i, 241, 243) /\ InRange(b, i + 1, 128, 191)
               \/ InRange(b, i, 244, 244) /\ InRange(b, i + 1, 128, 143)
            /\ InRange(b, i + 2, 128, 191)
            /\ InRange(b, i + 3, 128, 191)
            /\ WellFormedFrom(b, i + 4)

WellFormedUtf8(b) == WellFormedFrom(b, 1)

\* C9 as stated: a payload whose leading byte is >= 48 comes back as the
\* character sequence it is the UTF-8 encoding of, any other payload comes
\* back unmodified.
C9_Original ==
    (phase = "classified" /\ Len(input.val) > 0) =>
        IF input.val[1] >= 48
        THEN result.type = "str" /\ str_encode(result.val) = input.val
        ELSE result = input

\* C9 (amended): classification looks at the leading byte only.  A payload
\* whose leading byte is < 48 comes back unmodified as bytes; one whose
\* leading byte is >= 48 comes back as the character sequence it encodes if
\* it is well-formed UTF-8 and raises UnicodeDecodeError if it is not; the
\* empty payload, which has no leading byte, raises TypeError.
C9_Classification ==
    phase = "classified" =>
        IF Len(input.val) = 0 THEN result = Raise("TypeError")
        ELSE IF input.val[1] < 48 THEN result = input
        ELSE IF WellFormedUtf8(input.val)
        THEN result.type = "str" /\ str_encode(result.val) = input.val
        ELSE result = Raise("UnicodeDecodeError")

\* b"0a" has come back as "0a"
C9_Witness ==
    /\ phase = "classified"
    /\ input = Bytes(<<48, 97>>)
    /\ result = Str(<<48, 97>>)

\* C10 as stated: every text message, encoded and classified, comes back
\* equal to itself.
C10_Original ==
    phase = "roundtrip" => result = input

\* C10 (amended): every non-empty text message whose first character has a
\* code point >= 48, encoded to UTF-8 and classified, comes back as a
\* character sequence equal to itself.
C10_RoundTrip ==
    (phase = "roundtrip" /\ Len(input.val) > 0 /\ input.val[1] >= 48) =>
        result = input

\* a text message with a three-byte character has made the round trip
C10_Witness ==
    /\ phase = "roundtrip"
    /\ input = Str(<<97, 8364>>)
    /\ encoded = Bytes(<<97, 226, 130, 172>>)
    /\ result = input

\* C11: in compatibility mode a send() is one step that appends its message
\* to the tail of the queue and sets the event, and changes nothing else: no
\* transmit call, no task suspended, nothing of wait() or of the greenlet;
\* and the queue only ever loses messages in the drain of a wake of wait(),
\* which takes all of them into msgs.
C11_SendOnlyEnqueues ==
    /\ [][(req_ctx = "None" /\ sendLog' # sendLog) =>
            /\ sendLog' = Append(sendLog, sendLog'[Len(sendLog')])
            /\ send_queue' = Append(send_queue, sendLog'[Len(sendLog')])
            /\ event'
            /\ UNCHANGED <<sent, msgs, wpc, cpc, waitRet, select_greenlet,
                           registered, disconnected, closes, elapsed>>]_vars
    /\ [][(req_ctx = "None" /\ send_queue' # send_queue
                            /\ sendLog' = sendLog) =>
            /\ wpc = "event_wait"
            /\ wpc' \in {"flush", "recv_nb"}
            /\ msgs' = send_queue
            /\ send_queue' = <<>>]_vars

\* the other task has sent while wait() was suspended: the message sits in
\* the queue, the event is set, nothing was transmitted
C11_Witness ==
    /\ req_ctx = "None"
    /\ wpc = "event_wait"
    /\ Len(send_queue) = 2
    /\ send_queue = sendLog
    /\ event
    /\ sent = <<>>

\* C12 as stated: when __call__ raises for a request that is no WebSocket
\* upgrade, the application was not called and no connection state or
\* metadata is set on the adapter, for the gevent and the uWSGI adapter.
C12_Original ==
    /\ call_raised =>
        (~app_called /\ sock = "None" /\ ~environ_set /\ req_ctx = "unset")
    /\ gws.raised => gws = [GeventNew EXCEPT !.raised = TRUE]

\* C12 (amended): for a request that is no WebSocket upgrade both adapters
\* raise from __call__, never call the application and do nothing more
\* afterwards.  The gevent adapter raises before it has set anything; the
\* uWSGI adapter has by then stored the descriptor and the environ, but has
\* no request context, event, queue or greenlet.
C12_HandshakeError ==
    /\ [](~request.websocket => (~app_called /\ ~gws.app_called))
    /\ [](call_raised =>
            /\ ~request.websocket
            /\ sock = "fd" /\ environ_set
            /\ req_ctx = "unset"
            /\ select_greenlet = "absent" /\ spawned = 0
            /\ ~event /\ send_queue = <<>>)
    /\ [](gws.raised =>
            (~request.websocket /\ gws = [GeventNew EXCEPT !.raised = TRUE]))
    /\ [][call_raised => UNCHANGED <<adapterVars, callVars>>]_vars
    /\ [][gws.raised => gws' = gws]_vars

\* both adapters have refused the request
C12_Witness ==
    /\ ~request.websocket
    /\ call_raised
    /\ gws.raised

\* C13 as stated: the select greenlet is running from __call__ on, is only
\* ever stopped by a kill() from close() or from wait()'s IOError handler,
\* and once stopped stays stopped.
C13_Original ==
    /\ [](select_greenlet = "stopped" => kill_called)
    /\ []((req_ctx = "None" /\ ~kill_called) =>
            select_greenlet \in {"spawned", "selecting"})
    /\ [][select_greenlet = "stopped" => select_greenlet' = "stopped"]_vars

\* C13 (amended): the select greenlet is running from __call__ on and is
\* stopped only by a kill() from close() or from wait()'s IOError handler,
\* or by sel.select() raising an error that ends the task; through every
\* other step (sends, flushes, timeouts, receives that succeed,
\* notifications) it keeps running, and once stopped it stays stopped.
C13_PumpLifecycle ==
    /\ [][(req_ctx = "unset" /\ req_ctx' = "None") =>
            select_greenlet' = "spawned"]_vars
    /\ [](select_greenlet = "stopped" => (kill_called \/ pump_failed))
    /\ []((req_ctx = "None" /\ ~kill_called /\ ~pump_failed) =>
            select_greenlet \in {"spawned", "selecting"})
    /\ [][select_greenlet = "stopped" => select_greenlet' = "stopped"]_vars

\* messages were sent, flushed and received and the timeout has struck, the
\* greenlet still runs; nobody has killed it
C13_Witness ==
    /\ req_ctx = "None"
    /\ select_greenlet = "selecting"
    /\ ~kill_called
    /\ ~pump_failed
    /\ Len(sent) >= 1
    /\ waitRet.type = "str"
    /\ wpc = "idle"
    /\ ~event_set
    /\ elapsed = 3

\* C14: whenever the select greenlet is stopped, by a kill() or by an error
\* of sel.select(), the descriptor is no longer registered with the
\* selector.
C14_RegistrationReleased ==
    select_greenlet = "stopped" => ~registered

\* C15: a step of the select greenlet leaves the queue, the transmit log,
\* the receive state and all of wait() alone and never clears the event;
\* transmit calls are made only by send() in direct mode and by the flush of
\* wait(), receives only by wait().
C15_PumpOnlyObserves ==
    /\ [][(PumpStart \/ PumpNotify \/ PumpExit \/ PumpFail) =>
            /\ event => event'
            /\ UNCHANGED <<send_queue, sent, sendLog, msgs, wpc, waitRet,
                           received, recv_count, recvErr, disconnected,
                           peer, cpc, closes>>]_vars
    /\ [][sent' # sent =>
            \/ wpc = "flush" /\ sent' = Append(sent, HostCall(Head(msgs)))
            \/ req_ctx = "ctx" /\ sendLog' # sendLog]_vars
    /\ [][recv_count' > recv_count => wpc \in {"recv", "recv_nb"}]_vars

\* the greenlet has set the event: nothing was sent, nobody called close()
C15_Witness ==
    /\ req_ctx = "None"
    /\ select_greenlet = "selecting"
    /\ event
    /\ sendLog = <<>>
    /\ ~disconnected
    /\ wpc = "event_wait"

\* C16: in compatibility mode every iteration of the loop of wait() makes
\* exactly one non-blocking receive; wait() ends only after a receive that
\* raised IOError, returning None, or after one that delivered a non-empty
\* payload, handing that payload to _decode_received; after an empty
\* receive it goes back to waiting on the event, so it never returns an
\* empty payload.
C16_WaitLoop ==
    /\ [](recv_count <= 1)
    /\ [](req_ctx = "None" =>
            /\ wpc \in {"flush", "recv_nb"} => recv_count = 0
            /\ wpc = "kill_wait" => (recv_count = 1 /\ recvErr))
    /\ [][(req_ctx = "None" /\ wpc = "recv_nb" /\ wpc' # "recv_nb") =>
            /\ recv_count' = 1
            /\ IF received' = Raise("IOError")
               THEN wpc' \in {"kill_wait", "idle"}
               ELSE IF received'.val = <<>>
               THEN wpc' = "event_wait" /\ waitRet' = Pending
               ELSE wpc' = "idle" /\ waitRet' = decode_received(received')
          ]_vars
    /\ []((req_ctx = "None" /\ wpc = "idle" /\ waitRet # NoCall) =>
            /\ recv_count = 1
            /\ \/ received = Raise("IOError") /\ waitRet = None
               \/ /\ received.type = "bytes"
                  /\ received.val # <<>>
                  /\ waitRet = decode_received(received)
            /\ waitRet.type \in {"bytes", "str"} => waitRet.val # <<>>)

\* wait() has returned the text of a payload it received
C16_Witness ==
    /\ req_ctx = "None"
    /\ wpc = "idle"
    /\ received = Bytes(<<48, 97>>)
    /\ waitRet = Str(<<48, 97>>)
    /\ recv_count = 1

\* C17: in compatibility mode a non-empty queue implies a set event, in
\* every state and so whenever wait() is suspended or about to suspend on
\* the event: no send() is left without its wake-up.
C17_NoLostWakeup ==
    (req_ctx = "None" /\ send_queue # <<>>) => event

\* the other task has sent during the flush of wait(), which then received
\* nothing and is back on the event: the event is set for the new message
C17_Witness ==
    /\ req_ctx = "None"
    /\ wpc = "event_wait"
    /\ recv_count = 1
    /\ Len(sent) = 2
    /\ Len(send_queue) = 1
    /\ wakeMark = 2
    /\ event

\* C18: in compatibility mode the messages send() was called with are, in
\* order, exactly the transmitted ones, then those of the flush batch msgs,
\* then those of the queue: each is in one place only, none is transmitted
\* twice and none is lost.
C18_MessageConservation ==
    req_ctx = "None" => sendLog = SentMsgs \o msgs \o send_queue

\* one message is out, one is in the batch being flushed, one in the queue
C18_Witness ==
    /\ req_ctx = "None"
    /\ wpc = "flush"
    /\ Len(sent) = 1
    /\ Len(msgs) = 1
    /\ Len(send_queue) = 1

\* C19: in compatibility mode, if the owner keeps calling wait() (weak
\* fairness of WaitCall), the n-th message passed to send() is eventually
\* handed to the host transmit call, unless the connection is closed by
\* close() or by the peer; n ranges over every send() of the behaviour, so
\* over the ones made during a flush or after a return of wait() as well.
C19_EventualTransmission ==
    WF_vars(WaitCall) =>
        \A n \in 1..MaxSends :
            (req_ctx = "None" /\ Len(sendLog) >= n)
                ~> (Len(sent) >= n \/ disconnected \/ peer = "closed")

\* three messages are out on an open connection, the last one drained by a
\* later wake-up than the first, and wait() is back on the event
C19_Witness ==
    /\ req_ctx = "None"
    /\ ~disconnected
    /\ peer = "open"
    /\ wpc = "event_wait"
    /\ recv_count = 1
    /\ wakeMark = 3
    /\ Len(sent) = 3
    /\ send_queue = <<>>

\* C20: in compatibility mode, once close() has disconnected the
\* connection, no step hands a message to the host transmit call, and a
\* wait() that ends after the close returns None with nothing transmitted
\* since the close.
C20_NoTransmitAfterClose ==
    [][(req_ctx = "None" /\ disconnected) => sent' = sent]_vars

====
